---- MODULE Spec2Model ----
(***************************************************************************)
(* A model of ilda-tools: the ILDA frame decoder (ILDAIStream), the fair   *)
(* remainder distribution (groupSizeOfNthGroup) and the WAV encoder        *)
(* (ILDAWavOutput::run) and the replay cache (ILDARepeater).               *)
(*                                                                         *)
(* Four specifications share the variables of this module:                 *)
(*   DistSpec  groupSizeOfNthGroup applied to bounded inputs               *)
(*   Spec      ILDAIStream::nextFrame over bounded byte streams            *)
(*   WavSpec   ILDAWavOutput::run over bounded frame sources               *)
(*   RepSpec   ILDARepeater::nextFrame over bounded frame sources          *)
(* Each leaves the variables of the other three at their initial values.   *)
(***************************************************************************)
EXTENDS Integers, Sequences, FiniteSets, TLC

VARIABLES
    \* ---- the build ----
    host,             \* byte order of the machine the program runs on
    signed_overflow,  \* what a signed int overflow does in this build
    \* ---- groupSizeOfNthGroup applied to one (total_size, groups) ----
    dpc,              \* "idle" | "input" | "done" | "trap"
    total_size,       \* the argument total_size
    groups,           \* the argument groups
    sizes,            \* <<groupSizeOfNthGroup(total_size, groups, i) : i = 0..groups-1>>
    \* ---- ILDAIStream ----
    input,             \* the bytes of the istream the decoder reads
    pos,               \* how many of them have been extracted
    header,            \* the 32 bytes of the member ilda_header header
    number_of_records, \* the member number_of_records
    current_frame,     \* the member current_frame: [projector, points]
    palettes,          \* the member palettes: projector id -> colours
    ret,               \* how the last nextFrame call ended
    start,             \* pos when the last nextFrame call began
    yielded,           \* how many nextFrame calls have returned a frame
    decoded,           \* how many of them ran a point routine (formats 0, 1, 4, 5)
    loaded,            \* projector id -> where its palette was read: [at, n]
    \* ---- ILDAWavOutput::run ----
    wpc,               \* "idle" | "ready" | "loop" | "done" | "invalid_signal" | "trap"
    fps, pps, rate,    \* the members fps, pps, rate
    signals,           \* the member signals, a sequence of characters
    invert,            \* the member invert, a sequence of characters
    frames,            \* the frames input.nextFrame() has yet to return
    seekable,          \* whether the ostream output can seek
    out_failed,        \* output's failbit
    wav_header,        \* the local WavHeader header
    file_header,       \* the 44 bytes at offset 0 of the output, field by field
    data_bytes,        \* how many bytes the output holds after those 44
    frame_number,      \* the locals frame_number, point_number, total_bytes
    point_number,
    total_bytes,
    last,              \* the locals <<last_x, last_y, last_z>>
    frame_out,         \* the samples the last iteration wrote, in order
    frame_in,          \* the frame the last iteration was given
    steps,             \* the sub-steps (loop over p) the last iteration went through
    sec_blocks,        \* sample blocks written since frame_in_second was last 0
    sec_nonempty,      \* whether every frame since then had at least one point
    \* ---- ILDARepeater ----
    rpc,               \* "idle" | "run" | "crash"
    original_input,    \* the frames the wrapped input has yet to return
    original_ended,    \* whether the wrapped input has returned nullptr
    original_recalled, \* calls made to the wrapped input after that
    rep_source,        \* every frame the wrapped input returns, in order
    rep_frames,        \* the member frames
    it,                \* the member it: an index into frames, Len + 1 is end()
    repeating,         \* the member repeating
    rep_ret,           \* what the last nextFrame call returned
    rep_calls,         \* how many nextFrame calls were made
    replayed           \* how many of them were made while repeating

buildVars == <<host, signed_overflow>>
distVars == <<dpc, total_size, groups, sizes>>
decVars == <<input, pos, header, number_of_records, current_frame, palettes, ret, start,
            yielded, decoded, loaded>>
wavVars == <<wpc, fps, pps, rate, signals, invert, frames, seekable, out_failed,
            wav_header, file_header, data_bytes, frame_number, point_number,
            total_bytes, last, frame_out, frame_in, steps, sec_blocks, sec_nonempty>>
repVars == <<rpc, original_input, original_ended, original_recalled, rep_source,
            rep_frames, it, repeating, rep_ret, rep_calls, replayed>>
vars == <<buildVars, distVars, decVars, wavVars, repVars>>

(***************************************************************************)
(* Bounds of the model.                                                    *)
(***************************************************************************)
MaxTotal == 12        \* totals 0..MaxTotal are distributed
MaxGroups == 6        \* over 1..MaxGroups groups
BigGroups == 46508    \* one group count for which index * rest leaves int
MaxBlocks == 2        \* a stream holds at most MaxBlocks header blocks
MaxRecords == 2       \* a point block holds 1..MaxRecords records
MaxFps == 2           \* fps is 1..MaxFps
MaxPps == 3           \* pps is 1..MaxPps
MaxRate == 4          \* rate is 0..MaxRate
MaxFrames == 2        \* the frame source yields 0..MaxFrames frames
MaxSource == 3        \* the input the repeater wraps yields 0..MaxSource frames
MaxCalls == 8         \* nextFrame calls made on the repeater

(***************************************************************************)
(* C integer arithmetic.  int is 32 bits wide.  Products are formed from   *)
(* 16-bit halves so that no intermediate value leaves the 32-bit range.    *)
(***************************************************************************)
IntMax == 2147483647

\* C's / and % truncate towards zero; b > 0 in every use.
CDiv(a, b) == IF a >= 0 THEN a \div b ELSE -((-a) \div b)

CRem(a, b) == IF a >= 0 THEN a % b ELSE -((-a) % b)

\* The 32-bit product of two 16-bit halves, as <<high half, low half>>.
Mul16(a0, b0) ==
    LET u == a0 * (b0 \div 256)
        v == a0 * (b0 % 256)
        w == (u % 256) * 256 + v
    IN  <<(u \div 256) + (w \div 65536), w % 65536>>

\* The int a build that wraps (two's complement) holds after a * b,
\* for 0 <= a, b <= IntMax.
MulInt(a, b) ==
    LET a1 == a \div 65536
        a0 == a % 65536
        b1 == b \div 65536
        b0 == b % 65536
        m  == Mul16(a0, b0)
        hi == (m[1] + ((a1 * b0) % 65536) + ((a0 * b1) % 65536)) % 65536
    IN  IF hi >= 32768 THEN (hi - 65536) * 65536 + m[2]
                       ELSE hi * 65536 + m[2]

\* a * b does not fit an int, for 0 <= a, b <= IntMax.
MulOverflows(a, b) == a > 0 /\ b > IntMax \div a

(***************************************************************************)
(* groupSizeOfNthGroup (ilda_wav.cpp).  The two products are computed in   *)
(* int: when one of them leaves the range of int the behaviour is          *)
(* undefined; the builds modelled either wrap or trap (signed_overflow).   *)
(***************************************************************************)
groupSizeOverflows(total, grps, index) ==
    LET rest == CRem(total, grps)
    IN  MulOverflows(index, rest) \/ MulOverflows(index + 1, rest)

\* groupSizeOfNthGroup with the comparison turned round.
groupSizeOfNthGroupReversed(total, grps, index) ==
    LET base == CDiv(total, grps)
        rest == CRem(total, grps)
        extra_needed == CRem(MulInt(index, rest), grps)
                            < CRem(MulInt(index + 1, rest), grps)
    IN  IF extra_needed THEN base + 1 ELSE base

groupSizeOfNthGroup(total, grps, index) ==
    LET base == CDiv(total, grps)
        rest == CRem(total, grps)
        extra_needed == CRem(MulInt(index, rest), grps)
                            > CRem(MulInt(index + 1, rest), grps)
    IN  IF extra_needed THEN base + 1 ELSE base

(***************************************************************************)
(* The ILDA structs (ilda.hpp).  All of them are packed, so a struct is    *)
(* the sequence of its bytes; field offsets below are 1-based.             *)
(***************************************************************************)
SizeOfHeader == 32                     \* sizeof(ilda_header)

SizeOf3dCoordinatesIndexed == 8        \* sizeof(ILDA3dCoordinatesIndexed)

SizeOf2dCoordinatesIndexed == 6        \* sizeof(ILDA2dCoordinatesIndexed)

SizeOf3dCoordinatesTrue == 10          \* sizeof(ILDA3dCoordinatesTrue)

SizeOf2dCoordinatesTrue == 8           \* sizeof(ILDA2dCoordinatesTrue)

SizeOfColor == 3                       \* sizeof(ILDAColor)

FORMAT_3D_COORDINATES_INDEXED == 0

FORMAT_2D_INDEXED == 1

FORMAT_COLOR_PALETTE == 2

FORMAT_COORDINATES_3D_TRUE == 4

FORMAT_COORDINATES_2D_TRUE == 5

\* header.format, header.projector_id
HeaderFormat(h) == h[8]

HeaderProjector(h) == h[31]

\* A 16-bit field as the host loads it from the two bytes b0, b1 in memory order.
LoadU16(h, b0, b1) == IF h = "little" THEN b0 + 256 * b1 ELSE 256 * b0 + b1

\* The int16_t with the bits of the uint16_t v.
AsInt16(v) == IF v >= 32768 THEN v - 65536 ELSE v

\* boost::endian::big_to_native on a uint16_t: a byte swap on a little-endian
\* host, nothing on a big-endian one.
big_to_native(h, v) == IF h = "little" THEN (v % 256) * 256 + (v \div 256) ELSE v

\* ilda_status.blanked: the bit-field after six unnamed bits, allocated from
\* the least significant bit, i.e. bit 6 of the status byte.
StatusBlanked(status) == (status \div 64) % 2 = 1

\* The char sequence std::string(p) holds for the bytes mem: up to the first NUL.
RECURSIVE CString(_)
CString(mem) ==
    IF mem = <<>> \/ Head(mem) = 0 THEN <<>>
    ELSE <<Head(mem)>> \o CString(Tail(mem))

ILDA == <<73, 76, 68, 65>>             \* "ILDA"

default_palette ==
    <<<<255, 0, 0>>, <<255, 16, 0>>, <<255, 32, 0>>, <<255, 48, 0>>,
       <<255, 64, 0>>, <<255, 80, 0>>, <<255, 96, 0>>, <<255, 112, 0>>,
       <<255, 128, 0>>, <<255, 144, 0>>, <<255, 160, 0>>, <<255, 176, 0>>,
       <<255, 192, 0>>, <<255, 208, 0>>, <<255, 224, 0>>, <<255, 240, 0>>,
       <<255, 255, 0>>, <<224, 255, 0>>, <<192, 255, 0>>, <<160, 255, 0>>,
       <<128, 255, 0>>, <<96, 255, 0>>, <<64, 255, 0>>, <<32, 255, 0>>,
       <<0, 255, 0>>, <<0, 255, 36>>, <<0, 255, 73>>, <<0, 255, 109>>,
       <<0, 255, 146>>, <<0, 255, 182>>, <<0, 255, 219>>, <<0, 255, 255>>,
       <<0, 227, 255>>, <<0, 198, 255>>, <<0, 170, 255>>, <<0, 142, 255>>,
       <<0, 113, 255>>, <<0, 85, 255>>, <<0, 56, 255>>, <<0, 28, 255>>,
       <<0, 0, 255>>, <<32, 0, 255>>, <<64, 0, 255>>, <<96, 0, 255>>,
       <<128, 0, 255>>, <<160, 0, 255>>, <<192, 0, 255>>, <<224, 0, 255>>,
       <<255, 0, 255>>, <<255, 32, 255>>, <<255, 64, 255>>, <<255, 96, 255>>,
       <<255, 128, 255>>, <<255, 160, 255>>, <<255, 192, 255>>, <<255, 224, 255>>,
       <<255, 255, 255>>, <<255, 224, 224>>, <<255, 192, 192>>, <<255, 160, 160>>,
       <<255, 128, 128>>, <<255, 96, 96>>, <<255, 64, 64>>, <<255, 32, 32>>>>

Black == <<0, 0, 0>>

\* A Point of frame.hpp.  `at` is not a member: it records the stream offset
\* of the record the point was made from.
Point(x, y, z, c, at) ==
    [x |-> x, y |-> y, z |-> z, r |-> c[1], g |-> c[2], b |-> c[3], at |-> at]

(***************************************************************************)
(* ILDAIStream::read and the five body routines.  Each routine is given    *)
(* the stream, the host, the position p of the first byte of the body, the *)
(* record count n and what it needs of the decoder's state, and yields     *)
(* what it leaves behind: the records it extracted whole, the position     *)
(* after its last read, and whether a read came up short (which throws).   *)
(***************************************************************************)
\* read(target) in a loop: records i..n-1 of `size` bytes each, from p on.
\* A short read extracts what is left and throws.
RECURSIVE readRecords(_, _, _, _, _, _)
readRecords(in, size, i, n, p, acc) ==
    IF i >= n THEN [recs |-> acc, pos |-> p, eof |-> FALSE]
    ELSE IF Len(in) - p < size THEN [recs |-> acc, pos |-> Len(in), eof |-> TRUE]
    ELSE readRecords(in, size, i + 1, n, p + size,
                     Append(acc, SubSeq(in, p + 1, p + size)))

\* The colour an indexed record resolves to.
IndexedColor(palette, status, color) ==
    IF color >= Len(palette) \/ StatusBlanked(status) THEN Black
    ELSE palette[color + 1]

\* The colour a true-colour record resolves to.
TrueColor(status, r, g, b) ==
    IF StatusBlanked(status) THEN Black ELSE <<r, g, b>>

\* The palette an indexed routine uses for projector id.
PaletteFor(pals, id) ==
    IF id \in DOMAIN pals THEN pals[id] ELSE default_palette

\* One ILDA3dCoordinatesIndexed record as a Point.
PointFrom3dIndexed(h, rec, palette, at) ==
    Point(AsInt16(LoadU16(h, rec[1], rec[2])),
          AsInt16(LoadU16(h, rec[3], rec[4])),
          AsInt16(LoadU16(h, rec[5], rec[6])),
          IndexedColor(palette, rec[7], rec[8]), at)

\* One ILDA2dCoordinatesIndexed record as a Point.
PointFrom2dIndexed(h, rec, palette, at) ==
    Point(AsInt16(LoadU16(h, rec[1], rec[2])),
          AsInt16(LoadU16(h, rec[3], rec[4])),
          0,
          IndexedColor(palette, rec[5], rec[6]), at)

\* One ILDA3dCoordinatesTrue record (x, y, z, status, b, g, r) as a Point.
PointFrom3dTrue(h, rec, at) ==
    Point(AsInt16(LoadU16(h, rec[1], rec[2])),
          AsInt16(LoadU16(h, rec[3], rec[4])),
          AsInt16(LoadU16(h, rec[5], rec[6])),
          TrueColor(rec[7], rec[10], rec[9], rec[8]), at)

\* One ILDA2dCoordinatesTrue record (x, y, status, b, g, r) as a Point.
PointFrom2dTrue(h, rec, at) ==
    Point(AsInt16(LoadU16(h, rec[1], rec[2])),
          AsInt16(LoadU16(h, rec[3], rec[4])),
          0,
          TrueColor(rec[5], rec[8], rec[7], rec[6]), at)

\* What a frameFrom... routine leaves: current_frame, the stream position,
\* and whether it threw.  `kept` are the points current_frame held before.
FrameResult(id, kept, rd, pts) ==
    [frame |-> [projector |-> id, points |-> kept \o pts],
     pos |-> rd.pos, eof |-> rd.eof]

frameFrom3dCoordinatesIndexedNoClear(in, h, p, n, id, pals, old) ==
    LET rd == readRecords(in, SizeOf3dCoordinatesIndexed, 0, n, p, <<>>)
        palette == PaletteFor(pals, id)
    IN  FrameResult(id, old.points, rd,
            [k \in 1 .. Len(rd.recs) |-> PointFrom3dIndexed(h, rd.recs[k], palette,
                                   p + (k - 1) * SizeOf3dCoordinatesIndexed)])

frameFrom3dCoordinatesIndexed(in, h, p, n, id, pals, old) ==
    LET rd == readRecords(in, SizeOf3dCoordinatesIndexed, 0, n, p, <<>>)
        palette == PaletteFor(pals, id)
    IN  FrameResult(id, <<>>, rd,
            [k \in 1 .. Len(rd.recs) |-> PointFrom3dIndexed(h, rd.recs[k], palette,
                                   p + (k - 1) * SizeOf3dCoordinatesIndexed)])

\* Defined by the class, called by nothing.
frameFrom2dCoordinatesIndexed(in, h, p, n, id, pals, old) ==
    LET rd == readRecords(in, SizeOf2dCoordinatesIndexed, 0, n, p, <<>>)
        palette == PaletteFor(pals, id)
    IN  FrameResult(id, <<>>, rd,
            [k \in 1 .. Len(rd.recs) |-> PointFrom2dIndexed(h, rd.recs[k], palette,
                                   p + (k - 1) * SizeOf2dCoordinatesIndexed)])

frameFrom3dCoordinatesTrue(in, h, p, n, id, pals, old) ==
    LET rd == readRecords(in, SizeOf3dCoordinatesTrue, 0, n, p, <<>>)
    IN  FrameResult(id, <<>>, rd,
            [k \in 1 .. Len(rd.recs) |-> PointFrom3dTrue(h, rd.recs[k], p + (k - 1) * SizeOf3dCoordinatesTrue)])

frameFrom2dCoordinatesTrue(in, h, p, n, id, pals, old) ==
    LET rd == readRecords(in, SizeOf2dCoordinatesTrue, 0, n, p, <<>>)
    IN  FrameResult(id, <<>>, rd,
            [k \in 1 .. Len(rd.recs) |-> PointFrom2dTrue(h, rd.recs[k], p + (k - 1) * SizeOf2dCoordinatesTrue)])

\* setColorPalette: palettes[id] is cleared and resized to n (zeroed) entries,
\* then filled entry by entry as the colours are read.
setColorPalette(in, p, n, id, pals) ==
    LET rd == readRecords(in, SizeOfColor, 0, n, p, <<>>)
        entries == [k \in 1 .. n |->
                       IF k <= Len(rd.recs) THEN rd.recs[k] ELSE Black]
    IN  [palettes |-> [i \in DOMAIN pals \cup {id} |->
                          IF i = id THEN entries ELSE pals[i]],
         pos |-> rd.pos, eof |-> rd.eof]

(***************************************************************************)
(* ILDAIStream::readHeader and ILDAIStream::nextFrame.                     *)
(***************************************************************************)
\* readHeader: read(header), the magic test, the record count.
readHeader(in, h, p, hdr, n) ==
    IF Len(in) - p < SizeOfHeader
    THEN [header |-> SubSeq(in, p + 1, Len(in)) \o SubSeq(hdr, Len(in) - p + 1, SizeOfHeader),
          number_of_records |-> n, pos |-> Len(in), thrown |-> "eof"]
    ELSE LET read == SubSeq(in, p + 1, p + SizeOfHeader)
         IN  IF CString(read) # ILDA
             THEN [header |-> read, number_of_records |-> n,
                   pos |-> p + SizeOfHeader, thrown |-> "corrupt"]
             ELSE [header |-> read,
                   number_of_records |-> big_to_native(h, LoadU16(h, read[25], read[26])),
                   pos |-> p + SizeOfHeader, thrown |-> "no"]

\* The switch of nextFrame with the palette case given to a point routine.
RoutinePaletteAsPoints(format) ==
    CASE format = FORMAT_3D_COORDINATES_INDEXED -> "3dIndexed"
      [] format = FORMAT_2D_INDEXED -> "3dIndexed"
      [] format = FORMAT_COLOR_PALETTE -> "3dIndexed"
      [] format = FORMAT_COORDINATES_3D_TRUE -> "3dTrue"
      [] format = FORMAT_COORDINATES_2D_TRUE -> "2dTrue"
      [] OTHER -> "unsupported"

\* The switch of nextFrame: the routine each format code is given to.
Routine(format) ==
    CASE format = FORMAT_3D_COORDINATES_INDEXED -> "3dIndexed"
      [] format = FORMAT_2D_INDEXED -> "3dIndexed"
      [] format = FORMAT_COLOR_PALETTE -> "palette"
      [] format = FORMAT_COORDINATES_3D_TRUE -> "3dTrue"
      [] format = FORMAT_COORDINATES_2D_TRUE -> "2dTrue"
      [] OTHER -> "unsupported"

\* nextFrame: the decoder's state after the call and how the call ended:
\* "frame" (it returned &current_frame), "null" (it returned nullptr), or the
\* exception it threw ("eof", "corrupt", "unsupported").
nextFrame(in, h, p, hdr, n, frame, pals) ==
    LET rh == readHeader(in, h, p, hdr, n)
        base == [header |-> rh.header, number_of_records |-> rh.number_of_records,
                 current_frame |-> frame, palettes |-> pals, pos |-> rh.pos,
                 ret |-> rh.thrown]
        id == HeaderProjector(rh.header)
        routine == Routine(HeaderFormat(rh.header))
        count == rh.number_of_records
    IN  IF rh.thrown # "no" THEN base
        ELSE IF count = 0 THEN [base EXCEPT !.ret = "null"]
        ELSE IF routine = "unsupported" THEN [base EXCEPT !.ret = "unsupported"]
        ELSE IF routine = "palette"
        THEN LET r == setColorPalette(in, rh.pos, count, id, pals)
             IN  [base EXCEPT !.palettes = r.palettes, !.pos = r.pos,
                              !.ret = IF r.eof THEN "eof" ELSE "frame"]
        ELSE LET r == CASE routine = "3dIndexed" ->
                             frameFrom3dCoordinatesIndexed(in, h, rh.pos, count, id, pals, frame)
                        [] routine = "3dTrue" ->
                             frameFrom3dCoordinatesTrue(in, h, rh.pos, count, id, pals, frame)
                        [] routine = "2dTrue" ->
                             frameFrom2dCoordinatesTrue(in, h, rh.pos, count, id, pals, frame)
             IN  [base EXCEPT !.current_frame = r.frame, !.pos = r.pos,
                              !.ret = IF r.eof THEN "eof" ELSE "frame"]

Thrown == {"eof", "corrupt", "unsupported"}

(***************************************************************************)
(* The streams the decoder is run on: up to MaxBlocks blocks, each a       *)
(* header followed by the records of its format in that format's layout.   *)
(***************************************************************************)
RECURSIVE Flatten(_)
Flatten(ss) == IF ss = <<>> THEN <<>> ELSE Head(ss) \o Flatten(Tail(ss))

Zeros(k) == [i \in 1 .. k |-> 0]

\* A header as a writer lays it out: tag, reserved, format, name, company,
\* record count (big-endian), frame number, total frames, projector, reserved.
HeaderBytes(magic, reserved, format, n, id) ==
    magic \o reserved \o <<format>> \o Zeros(8) \o Zeros(8)
          \o <<n \div 256, n % 256>> \o <<0, 0>> \o <<0, 1>> \o <<id, 0>>

\* The records a block is filled from.  x, y, z are the two bytes of each
\* coordinate, rgb the colour a true-colour record carries.
Variants ==
    << [x |-> <<0, 1>>, y |-> <<0, 2>>, z |-> <<0, 3>>,
        status |-> 0, color |-> 1, rgb |-> <<1, 2, 3>>],
       [x |-> <<255, 254>>, y |-> <<1, 0>>, z |-> <<128, 0>>,
        status |-> 64, color |-> 0, rgb |-> <<7, 8, 9>>],
       [x |-> <<0, 5>>, y |-> <<0, 6>>, z |-> <<0, 7>>,
        status |-> 128, color |-> 64, rgb |-> <<250, 0, 9>>] >>

\* The k-th record of a block whose first record is variant s.
VariantAt(s, k) == Variants[((s + k - 2) % Len(Variants)) + 1]

RecordBytes(format, v) ==
    CASE format = FORMAT_3D_COORDINATES_INDEXED ->
             v.x \o v.y \o v.z \o <<v.status, v.color>>
      [] format = FORMAT_2D_INDEXED ->
             v.x \o v.y \o <<v.status, v.color>>
      [] format = FORMAT_COORDINATES_3D_TRUE ->
             v.x \o v.y \o v.z \o <<v.status, v.rgb[3], v.rgb[2], v.rgb[1]>>
      [] format = FORMAT_COORDINATES_2D_TRUE ->
             v.x \o v.y \o <<v.status, v.rgb[3], v.rgb[2], v.rgb[1]>>

PointFormats ==
    {FORMAT_3D_COORDINATES_INDEXED, FORMAT_2D_INDEXED,
     FORMAT_COORDINATES_3D_TRUE, FORMAT_COORDINATES_2D_TRUE}

IndexedFormats == {FORMAT_3D_COORDINATES_INDEXED, FORMAT_2D_INDEXED}

PointBlock(format, id, s, n) ==
    HeaderBytes(ILDA, Zeros(3), format, n, id)
        \o Flatten([k \in 1 .. n |-> RecordBytes(format, VariantAt(s, k))])

PaletteBlock(id, colors) ==
    HeaderBytes(ILDA, Zeros(3), FORMAT_COLOR_PALETTE, Len(colors), id)
        \o Flatten(colors)

\* The projector the palette blocks and most point blocks name, and a
\* projector no palette block names.
ProjectorIds == <<7, 0>>

LoadedId == ProjectorIds[1]

OtherId == ProjectorIds[2]

Blocks ==
    \* point blocks of every format
    {PointBlock(f, LoadedId, s, 1) : f \in PointFormats, s \in 1 .. Len(Variants)}
    \cup {PointBlock(f, LoadedId, 2, MaxRecords) : f \in PointFormats}
    \cup {PointBlock(FORMAT_3D_COORDINATES_INDEXED, OtherId, 1, 1)}
    \* a palette block
    \cup {PaletteBlock(LoadedId, <<<<255, 0, 0>>, <<0, 255, 0>>>>)}
    \* headers with a record count of zero, of every format code 0..5
    \cup {HeaderBytes(ILDA, Zeros(3), f, 0, OtherId) : f \in 0 .. 5}
    \* a header of an unknown format code with records declared
    \cup {HeaderBytes(ILDA, Zeros(3), 3, 1, OtherId)}
    \* headers whose reserved bytes are not zero, and one with a wrong tag
    \cup {HeaderBytes(ILDA, <<1, 0, 0>>, FORMAT_3D_COORDINATES_INDEXED, 0, OtherId),
          HeaderBytes(ILDA, <<0, 1, 0>>, FORMAT_3D_COORDINATES_INDEXED, 0, OtherId),
          HeaderBytes(<<73, 76, 68, 66>>, Zeros(3), FORMAT_3D_COORDINATES_INDEXED, 0, OtherId)}

BlockSeqs == UNION {[1 .. k -> Blocks] : k \in 0 .. MaxBlocks}

\* The header that ends a well-formed stream: a record count of zero.
EndOfStream == HeaderBytes(ILDA, Zeros(3), FORMAT_3D_COORDINATES_INDEXED, 0, OtherId)

\* Up to MaxBlocks blocks, then the closing header or nothing more.
Streams ==
    {Flatten(bs) \o tail : bs \in BlockSeqs, tail \in {<<>>, EndOfStream}}

\* A member that has not been assigned yet holds no particular value.
Indeterminate == -1

(***************************************************************************)
(* WavHeader (ilda_wav.cpp).  A uint16_t member is its value; a uint32_t   *)
(* member is the four base-256 digits of its value, least significant      *)
(* first, so that every value stays within 32-bit integer arithmetic.      *)
(***************************************************************************)
D32(n) == <<n % 256, (n \div 256) % 256, (n \div 65536) % 256, (n \div 16777216) % 256>>

\* d * m as a uint32_t, for a 16-bit m.
MulD32(d, m) ==
    LET t1 == d[1] * m
        t2 == d[2] * m + (t1 \div 256)
        t3 == d[3] * m + (t2 \div 256)
        t4 == d[4] * m + (t3 \div 256)
    IN  <<t1 % 256, t2 % 256, t3 % 256, t4 % 256>>

Reverse4(d) == <<d[4], d[3], d[2], d[1]>>

\* boost::endian::native_to_little on a uint16_t and on a uint32_t.
native_to_little16(h, v) == IF h = "little" THEN v ELSE (v % 256) * 256 + (v \div 256)

native_to_little32(h, d) == IF h = "little" THEN d ELSE Reverse4(d)

\* The bytes a member occupies in the host's memory, in address order.
MemBytes16(h, v) ==
    IF h = "little" THEN <<v % 256, v \div 256>> ELSE <<v \div 256, v % 256>>

MemBytes32(h, d) == IF h = "little" THEN d ELSE Reverse4(d)

\* A WavHeader whose channels and rate have been assigned; chunk_size,
\* bytes_per_second, bytes_per_block and data_size wait for update().
NewWavHeader(channel_count, r) ==
    [chunk_size |-> D32(0), fmt_chunk_size |-> D32(16), audio_format |-> 1,
     channels |-> channel_count, rate |-> D32(r), bytes_per_second |-> D32(0),
     bytes_per_block |-> 0, bits_per_sample |-> 16, data_size |-> D32(0)]

\* WavHeader::update(data_size)
WavHeaderUpdate(w, size) ==
    LET block == ((w.bits_per_sample * w.channels) \div 8) % 65536
    IN  [w EXCEPT !.data_size = D32(size),
                  !.chunk_size = D32(size + 36),
                  !.bytes_per_block = block,
                  !.bytes_per_second = MulD32(w.rate, block)]

\* WavHeader::littleEndian(): `result` is copied from *this first, the
\* conversions are then made on *this, and `result` is what is returned.
WavHeaderLittleEndian(h, w) ==
    [result |-> w,
     this |-> [chunk_size |-> native_to_little32(h, w.chunk_size),
               fmt_chunk_size |-> native_to_little32(h, w.fmt_chunk_size),
               audio_format |-> native_to_little16(h, w.audio_format),
               channels |-> native_to_little16(h, w.channels),
               rate |-> native_to_little32(h, w.rate),
               bytes_per_second |-> native_to_little32(h, w.bytes_per_second),
               bytes_per_block |-> native_to_little16(h, w.bytes_per_block),
               bits_per_sample |-> native_to_little16(h, w.bits_per_sample),
               data_size |-> native_to_little32(h, w.data_size)]]

\* output.write((char *)&le_header, sizeof(le_header)): the header's bytes.
WavHeaderBytes(h, w) ==
    [riff |-> <<82, 73, 70, 70>>,
     chunk_size |-> MemBytes32(h, w.chunk_size),
     wave |-> <<87, 65, 86, 69>>,
     fmt |-> <<102, 109, 116, 32>>,
     fmt_chunk_size |-> MemBytes32(h, w.fmt_chunk_size),
     audio_format |-> MemBytes16(h, w.audio_format),
     channels |-> MemBytes16(h, w.channels),
     rate |-> MemBytes32(h, w.rate),
     bytes_per_second |-> MemBytes32(h, w.bytes_per_second),
     bytes_per_block |-> MemBytes16(h, w.bytes_per_block),
     bits_per_sample |-> MemBytes16(h, w.bits_per_sample),
     data |-> <<100, 97, 116, 97>>,
     data_size |-> MemBytes32(h, w.data_size)]

(***************************************************************************)
(* The body of the while loop of ILDAWavOutput::run, for one frame.        *)
(***************************************************************************)
Int16Max == 32767       \* std::numeric_limits<int16_t>::max()

Uint8Max == 255         \* std::numeric_limits<uint8_t>::max()

\* The int16_t an int converts to.
ToInt16(v) == ((v + 32768) % 65536) - 32768

ValidSignals == {"x", "y", "z", "l", "r", "g", "b"}

InvertAxis(axis, v) ==
    IF \E j \in 1 .. Len(invert) : invert[j] = axis THEN ToInt16(v * (-1)) ELSE v

\* The value one signal character selects from a sub-step's values.
SignalValue(s, v) ==
    CASE s = "x" -> v.ix
      [] s = "y" -> v.iy
      [] s = "z" -> v.iz
      [] s = "l" -> v.l
      [] s = "r" -> v.r
      [] s = "g" -> v.g
      [] s = "b" -> v.b

RECURSIVE Repeat(_, _)
Repeat(block, m) == IF m <= 0 THEN <<>> ELSE block \o Repeat(block, m - 1)

\* The values of sub-step p of k of a location at (x, y, z), coming from lst.
SubStepValues(c, x, y, z, lst, p, k) ==
    LET dx == ToInt16(x - lst[1])
        dy == ToInt16(y - lst[2])
        dz == ToInt16(z - lst[3])
    IN  [ix |-> ToInt16(lst[1] + CDiv(dx * p, k)),
         iy |-> ToInt16(lst[2] + CDiv(dy * p, k)),
         iz |-> ToInt16(lst[3] + CDiv(dz * p, k)),
         l |-> IF c.r = 0 /\ c.g = 0 /\ c.b = 0 THEN 0 ELSE Int16Max,
         r |-> ToInt16(c.r * (Int16Max \div Uint8Max)),
         g |-> ToInt16(c.g * (Int16Max \div Uint8Max)),
         b |-> ToInt16(c.b * (Int16Max \div Uint8Max))]

\* The sum of s[lo..hi], halving the range so the depth stays logarithmic.
RECURSIVE SumRange(_, _, _)
SumRange(s, lo, hi) ==
    IF lo > hi THEN 0
    ELSE IF lo = hi THEN s[lo]
    ELSE LET mid == (lo + hi) \div 2
         IN  SumRange(s, lo, mid) + SumRange(s, mid + 1, hi)

\* Iteration p of the loop over p for location i: what it works from (the
\* last position, the inverted position and the colours of the location,
\* point_number) and what it computes.
SubStep(i, p, k, c, x, y, z, lst, pn) ==
    [i |-> i, p |-> p, k |-> k, from |-> lst, to |-> <<x, y, z>>,
     c |-> <<c.r, c.g, c.b>>, point_number |-> pn,
     samples_of_location |-> groupSizeOfNthGroup(rate, pps, pn),
     v |-> SubStepValues(c, x, y, z, lst, p, k)]

\* What iterations lo..hi of the loop over p write to frame_data, and how
\* many sample blocks that is; the range is halved so that the depth of the
\* evaluation stays logarithmic in k.
RECURSIVE subStepSamples(_, _, _, _, _, _, _, _, _)
subStepSamples(lo, hi, k, c, x, y, z, lst, pn) ==
    IF lo > hi THEN <<>>
    ELSE IF lo = hi
    THEN Repeat([j \in 1 .. Len(signals) |->
                     SignalValue(signals[j], SubStepValues(c, x, y, z, lst, lo, k))],
                groupSizeOfNthGroup(rate, pps, pn + lo - 1))
    ELSE LET mid == (lo + hi) \div 2
         IN  subStepSamples(lo, mid, k, c, x, y, z, lst, pn)
                 \o subStepSamples(mid + 1, hi, k, c, x, y, z, lst, pn)

RECURSIVE subStepBlocks(_, _, _)
subStepBlocks(lo, hi, pn) ==
    IF lo > hi THEN 0
    ELSE IF lo = hi THEN groupSizeOfNthGroup(rate, pps, pn + lo - 1)
    ELSE LET mid == (lo + hi) \div 2
         IN  subStepBlocks(lo, mid, pn) + subStepBlocks(mid + 1, hi, pn)

\* encodeSubSteps with the loop test p < k in place of p <= k.
encodeSubStepsExclusive(i, k, c, x, y, z, lst, pn) ==
    LET thrown == /\ \E j \in 1 .. Len(signals) : signals[j] \notin ValidSignals
                  /\ \E p \in 1 .. k - 1 : groupSizeOfNthGroup(rate, pps, pn + p - 1) > 0
    IN  [steps |-> [p \in 1 .. k - 1 |-> SubStep(i, p, k, c, x, y, z, lst, pn + p - 1)],
         samples |-> IF thrown THEN <<>>
                     ELSE subStepSamples(1, k - 1, k, c, x, y, z, lst, pn),
         blocks |-> subStepBlocks(1, k - 1, pn),
         point_number |-> pn + k - 1,
         overflow |-> \E p \in 1 .. k - 1 : groupSizeOverflows(rate, pps, pn + p - 1),
         thrown |-> thrown]

\* The loop over p = 1..k for location i.  pn is point_number on entry; it
\* is pn + p - 1 in iteration p.  An unknown signal character throws as soon
\* as a sample is written.
encodeSubSteps(i, k, c, x, y, z, lst, pn) ==
    LET thrown == /\ \E j \in 1 .. Len(signals) : signals[j] \notin ValidSignals
                  /\ \E p \in 1 .. k : groupSizeOfNthGroup(rate, pps, pn + p - 1) > 0
    IN  [steps |-> [p \in 1 .. k |-> SubStep(i, p, k, c, x, y, z, lst, pn + p - 1)],
         samples |-> IF thrown THEN <<>>
                     ELSE subStepSamples(1, k, k, c, x, y, z, lst, pn),
         blocks |-> subStepBlocks(1, k, pn),
         point_number |-> pn + k,
         overflow |-> \E p \in 1 .. k : groupSizeOverflows(rate, pps, pn + p - 1),
         thrown |-> thrown]

\* The loop over the locations i, i+1, ... of a frame.
RECURSIVE encodeLocations(_, _, _, _)
encodeLocations(i, points, point_count, st) ==
    IF i >= Len(points) THEN st
    ELSE LET point_count_of_location == groupSizeOfNthGroup(point_count, Len(points), i)
             c == points[i + 1]
             x == InvertAxis("x", c.x)
             y == InvertAxis("y", c.y)
             z == InvertAxis("z", c.z)
             sub == encodeSubSteps(i, point_count_of_location, c, x, y, z,
                                   st.last, st.point_number)
             over == st.overflow \/ groupSizeOverflows(point_count, Len(points), i)
         IN  IF point_count_of_location = 0
             THEN encodeLocations(i + 1, points, point_count,
                                  [st EXCEPT !.overflow = over])
             ELSE IF sub.thrown
             THEN [st EXCEPT !.thrown = TRUE, !.overflow = over \/ sub.overflow]
             ELSE encodeLocations(i + 1, points, point_count,
                      [samples |-> st.samples \o sub.samples,
                       steps |-> st.steps \o sub.steps,
                       blocks |-> st.blocks + sub.blocks,
                       point_number |-> sub.point_number,
                       last |-> <<x, y, z>>,
                       overflow |-> over \/ sub.overflow,
                       thrown |-> FALSE])

\* One iteration: the samples of the frame, and the locals after it.
encodeFrame(frame) ==
    LET frame_in_second == frame_number % fps
        point_count == groupSizeOfNthGroup(pps, fps, frame_in_second)
    IN  encodeLocations(0, frame.points, point_count,
            [samples |-> <<>>,
             steps |-> <<>>,
             blocks |-> 0,
             point_number |-> IF frame_in_second = 0 THEN 0 ELSE point_number,
             last |-> last,
             overflow |-> groupSizeOverflows(pps, fps, frame_in_second),
             thrown |-> FALSE])

(***************************************************************************)
(* What run() is given: the frames of the source and the options.          *)
(***************************************************************************)
WavPoint(x, y, z, c) == [x |-> x, y |-> y, z |-> z, r |-> c[1], g |-> c[2], b |-> c[3]]

OnePointFrame == [projector |-> 0, points |-> <<WavPoint(100, 0, 0, <<255, 0, 0>>)>>]

FramePool ==
    {[projector |-> 0, points |-> <<>>],
     OnePointFrame,
     [projector |-> 0, points |-> <<WavPoint(100, 0, 0, <<255, 0, 0>>),
                                    WavPoint(32767, -32768, 5, <<0, 0, 0>>),
                                    WavPoint(-32768, 32767, 7, <<0, 255, 1>>)>>]}

FrameSources == UNION {[1 .. k -> FramePool] : k \in 0 .. MaxFrames}

SignalSpecs == {<<"x", "y", "l">>, <<"z", "r", "g", "b">>, <<"x", "q">>}

InvertSpecs == {<<>>, <<"x", "z">>}

(***************************************************************************)
(* Initial values of each component, and the four specifications.          *)
(***************************************************************************)
RepIdle ==
    /\ rpc = "idle"
    /\ original_input = <<>>
    /\ original_ended = FALSE
    /\ original_recalled = 0
    /\ rep_source = <<>>
    /\ rep_frames = <<>>
    /\ it = Indeterminate
    /\ repeating = FALSE
    /\ rep_ret = [from |-> "none", index |-> 0, frame |-> <<>>]
    /\ rep_calls = 0
    /\ replayed = 0

DistIdle ==
    /\ dpc = "idle"
    /\ total_size = 0
    /\ groups = 1
    /\ sizes = <<>>

DecIdle ==
    /\ input = <<>>
    /\ pos = 0
    /\ header = <<>>
    /\ number_of_records = Indeterminate
    /\ current_frame = [projector |-> Indeterminate, points |-> <<>>]
    /\ palettes = <<>>
    /\ ret = "idle"
    /\ start = 0
    /\ yielded = 0
    /\ decoded = 0
    /\ loaded = <<>>

WavIdle ==
    /\ wpc = "idle"
    /\ fps = 1
    /\ pps = 1
    /\ rate = 0
    /\ signals = <<>>
    /\ invert = <<>>
    /\ frames = <<>>
    /\ seekable = TRUE
    /\ out_failed = FALSE
    /\ wav_header = NewWavHeader(0, 0)
    /\ file_header = <<>>
    /\ data_bytes = 0
    /\ frame_number = 0
    /\ point_number = 0
    /\ total_bytes = 0
    /\ last = <<0, 0, 0>>
    /\ frame_out = <<>>
    /\ frame_in = <<>>
    /\ steps = <<>>
    /\ sec_blocks = 0
    /\ sec_nonempty = TRUE

(***************************************************************************)
(* DistSpec: groupSizeOfNthGroup over every index of one distribution.     *)
(***************************************************************************)
Hosts == {"little", "big"}

OverflowModes == {"wrap", "trap"}

DistInputs ==
    {<<t, g>> : t \in 0 .. MaxTotal, g \in 1 .. MaxGroups}
        \cup {<<2 * BigGroups - 1, BigGroups>>}

DistInit ==
    /\ host = "little"
    /\ signed_overflow \in OverflowModes
    /\ dpc = "input"
    /\ \E in \in DistInputs : total_size = in[1] /\ groups = in[2]
    /\ sizes = <<>>
    /\ DecIdle
    /\ WavIdle
    /\ RepIdle

\* Every group's size is computed, index 0 first.  With a trapping build the
\* first overflowing product ends the program.
Distribute ==
    /\ dpc = "input"
    /\ IF signed_overflow = "trap" /\ groupSizeOverflows(total_size, groups, groups - 1)
       THEN /\ dpc' = "trap"
            /\ sizes' = <<>>
       ELSE /\ dpc' = "done"
            /\ sizes' = [k \in 1 .. groups |->
                            groupSizeOfNthGroup(total_size, groups, k - 1)]
    /\ UNCHANGED <<buildVars, repVars, total_size, groups, decVars, wavVars>>

DistNext == Distribute

DistSpec == DistInit /\ [][DistNext]_vars

(***************************************************************************)
(* Spec: one ILDAIStream constructed on a stream, and the calls of         *)
(* nextFrame made on it.  An exception ends the program.                   *)
(***************************************************************************)
Init ==
    /\ host \in Hosts
    /\ signed_overflow = "wrap"
    /\ DistIdle
    /\ RepIdle
    /\ input \in Streams
    /\ pos = 0
    /\ header = [k \in 1 .. SizeOfHeader |-> Indeterminate]
    /\ number_of_records = Indeterminate
    /\ current_frame = [projector |-> Indeterminate, points |-> <<>>]
    /\ palettes = <<>>
    /\ ret = "none"
    /\ start = 0
    /\ yielded = 0
    /\ decoded = 0
    /\ loaded = <<>>
    /\ WavIdle

NextFrame ==
    /\ ret \notin Thrown
    /\ LET o == nextFrame(input, host, pos, header, number_of_records,
                          current_frame, palettes)
       IN  /\ header' = o.header
           /\ number_of_records' = o.number_of_records
           /\ current_frame' = o.current_frame
           /\ palettes' = o.palettes
           /\ pos' = o.pos
           /\ ret' = o.ret
           /\ yielded' = IF o.ret = "frame" THEN yielded + 1 ELSE yielded
           /\ decoded' = IF o.ret = "frame" /\ Routine(HeaderFormat(o.header)) # "palette"
                          THEN decoded + 1 ELSE decoded
           /\ loaded' = IF o.ret = "frame" /\ Routine(HeaderFormat(o.header)) = "palette"
                         THEN [i \in DOMAIN loaded \cup {HeaderProjector(o.header)} |->
                                  IF i = HeaderProjector(o.header)
                                  THEN [at |-> pos + SizeOfHeader, n |-> o.number_of_records]
                                  ELSE loaded[i]]
                         ELSE loaded
    /\ start' = pos
    /\ UNCHANGED <<buildVars, repVars, distVars, input, wavVars>>

Next == NextFrame

Spec == Init /\ [][Next]_vars

(***************************************************************************)
(* WavSpec: one ILDAWavOutput constructed on a frame source and an         *)
(* ostream, and run() called on it.                                        *)
(***************************************************************************)
\* The arguments of the constructor: every small combination, and two runs
\* beyond the small ranges: the interpolation scenario of the specification
\* (10 frames and 100 points a second) and a point budget large enough for
\* the products of groupSizeOfNthGroup to leave the range of int.
SmallRuns ==
    [fps : 1 .. MaxFps, pps : 1 .. MaxPps, rate : 0 .. MaxRate,
     signals : SignalSpecs, invert : InvertSpecs, frames : FrameSources,
     build : {"wrap"}, host : Hosts, seekable : BOOLEAN]

LargeRuns ==
    [fps : {10}, pps : {100}, rate : {200}, signals : {<<"x", "y", "l">>},
     invert : {<<>>}, frames : {<<OnePointFrame>>}, build : {"wrap"},
     host : {"little"}, seekable : {TRUE}]
    \cup
    [fps : {1}, pps : {BigGroups}, rate : {2 * BigGroups - 1}, signals : {<<"x">>},
     invert : {<<>>}, frames : {<<OnePointFrame>>}, build : OverflowModes,
     host : {"little"}, seekable : {TRUE}]

WavInit ==
    /\ DistIdle
    /\ DecIdle
    /\ RepIdle
    /\ wpc = "ready"
    /\ \E run \in SmallRuns \cup LargeRuns :
          /\ host = run.host
          /\ signed_overflow = run.build
          /\ seekable = run.seekable
          /\ fps = run.fps
          /\ pps = run.pps
          /\ rate = run.rate
          /\ signals = run.signals
          /\ invert = run.invert
          /\ frames = run.frames
    /\ out_failed = FALSE
    /\ wav_header = NewWavHeader(0, 0)
    /\ file_header = <<>>
    /\ data_bytes = 0
    /\ frame_number = 0
    /\ point_number = 0
    /\ total_bytes = 0
    /\ last = <<0, 0, 0>>
    /\ frame_out = <<>>
    /\ frame_in = <<>>
    /\ steps = <<>>
    /\ sec_blocks = 0
    /\ sec_nonempty = TRUE

\* run() up to the while loop: the header with the placeholder length is
\* written and the locals are set.
RunBegin ==
    /\ wpc = "ready"
    /\ LET le == WavHeaderLittleEndian(host,
                     WavHeaderUpdate(NewWavHeader(Len(signals), rate), 0))
       IN  /\ wav_header' = le.this
           /\ file_header' = WavHeaderBytes(host, le.result)
    /\ wpc' = "loop"
    /\ UNCHANGED <<buildVars, repVars, distVars, decVars, fps, pps, rate, signals, invert,
                   frames, seekable, out_failed, data_bytes, frame_number,
                   point_number, total_bytes, last, frame_out, frame_in, steps,
                   sec_blocks, sec_nonempty>>

\* One iteration of the while loop: input.nextFrame() returned a frame.  In
\* a build that traps signed overflow the iteration ends the program when a
\* product of groupSizeOfNthGroup overflows (the runs where one does have no
\* unknown signal character).
RunFrame ==
    /\ wpc = "loop"
    /\ frames # <<>>
    /\ \E r \in {encodeFrame(Head(frames))} :
          IF (signed_overflow = "trap" /\ r.overflow) \/ r.thrown
          THEN /\ wpc' = IF signed_overflow = "trap" /\ r.overflow
                         THEN "trap" ELSE "invalid_signal"
               /\ UNCHANGED <<data_bytes, frame_number, point_number, total_bytes,
                              last, frame_out, frame_in, steps, sec_blocks,
                              sec_nonempty>>
          ELSE /\ wpc' = "loop"
               /\ frame_out' = r.samples
               /\ data_bytes' = data_bytes + 2 * Len(r.samples)
               /\ total_bytes' = total_bytes + 2 * Len(r.samples)
               /\ frame_number' = frame_number + 1
               /\ point_number' = r.point_number
               /\ last' = r.last
               /\ frame_in' = Head(frames)
               /\ steps' = r.steps
               /\ sec_blocks' = IF frame_number % fps = 0
                                THEN r.blocks ELSE sec_blocks + r.blocks
               /\ sec_nonempty' = /\ Len(Head(frames).points) > 0
                                  /\ (frame_number % fps = 0 \/ sec_nonempty)
    /\ frames' = Tail(frames)
    /\ UNCHANGED <<buildVars, repVars, distVars, decVars, fps, pps, rate, signals, invert,
                   seekable, out_failed, wav_header, file_header>>

\* input.nextFrame() returned nullptr: the header is updated, the stream is
\* sought to 0 and the header written again; run() returns 0.  On a stream
\* that cannot seek, seekp sets failbit and the write does nothing.
RunEnd ==
    /\ wpc = "loop"
    /\ frames = <<>>
    /\ LET le == WavHeaderLittleEndian(host, WavHeaderUpdate(wav_header, total_bytes))
       IN  /\ wav_header' = le.this
           /\ IF seekable
              THEN file_header' = WavHeaderBytes(host, le.result) /\ out_failed' = FALSE
              ELSE file_header' = file_header /\ out_failed' = TRUE
    /\ wpc' = "done"
    /\ UNCHANGED <<buildVars, repVars, distVars, decVars, fps, pps, rate, signals, invert,
                   frames, seekable, data_bytes, frame_number, point_number,
                   total_bytes, last, frame_out, frame_in, steps, sec_blocks, sec_nonempty>>

WavNext == RunBegin \/ RunFrame \/ RunEnd

WavSpec == WavInit /\ [][WavNext]_vars

(***************************************************************************)
(* ILDARepeater (ilda_repeater.cpp).  The wrapped ILDAInput is the         *)
(* sequence of frames it returns before it returns nullptr.  A reference   *)
(* the repeater returns is where it points: the wrapped input's frame      *)
(* ("input"), element index of frames ("cache") or no element of frames    *)
(* ("outside").  Dereferencing an iterator that is not within frames is    *)
(* undefined: the call then either returns a reference outside frames or   *)
(* ends the program.                                                       *)
(***************************************************************************)
RepSources == UNION {[1 .. n -> FramePool] : n \in 0 .. MaxSource}

UndefinedOutcomes == {"outside", "crash"}

RepInit ==
    /\ host = "little"
    /\ signed_overflow = "wrap"
    /\ DistIdle
    /\ DecIdle
    /\ WavIdle
    /\ rpc = "run"
    /\ rep_source \in RepSources
    /\ original_input = rep_source
    /\ original_ended = FALSE
    /\ original_recalled = 0
    /\ rep_frames = <<>>
    /\ it = Indeterminate
    /\ repeating = FALSE
    /\ rep_ret = [from |-> "none", index |-> 0, frame |-> <<>>]
    /\ rep_calls = 0
    /\ replayed = 0

\* ILDARepeater::nextFrame, one call.
RepeaterNextFrame ==
    /\ rpc = "run"
    /\ rep_calls < MaxCalls
    /\ rep_calls' = rep_calls + 1
    /\ original_recalled' = IF ~repeating /\ original_ended
                               THEN original_recalled + 1 ELSE original_recalled
    /\ IF ~repeating /\ original_input # <<>>
          THEN /\ rep_frames' = Append(rep_frames, Head(original_input))
               /\ original_input' = Tail(original_input)
               /\ rep_ret' = [from |-> "input", index |-> 0,
                               frame |-> Head(original_input)]
               /\ UNCHANGED <<rpc, original_ended, it, repeating, replayed>>
          ELSE LET begin == 1
                   end == Len(rep_frames) + 1
                   first == IF repeating THEN it ELSE begin
                   at == IF first = end THEN begin ELSE first
               IN  /\ repeating' = TRUE
                   /\ original_ended' = (original_ended \/ ~repeating)
                   /\ replayed' = replayed + 1
                   /\ UNCHANGED <<original_input, rep_frames>>
                   /\ IF at \in 1 .. Len(rep_frames)
                         THEN /\ rep_ret' = [from |-> "cache", index |-> at,
                                             frame |-> rep_frames[at]]
                              /\ it' = at + 1
                              /\ rpc' = rpc
                         ELSE \E outcome \in UndefinedOutcomes :
                                 /\ rep_ret' = [from |-> outcome, index |-> at,
                                                frame |-> <<>>]
                                 /\ it' = at + 1
                                 /\ rpc' = IF outcome = "crash" THEN "crash" ELSE rpc
    /\ UNCHANGED <<buildVars, distVars, decVars, wavVars, rep_source>>

RepNext == RepeaterNextFrame

RepSpec == RepInit /\ [][RepNext]_vars

\* C1: for every total T >= 0 and group count G >= 1 the G group sizes sum
\* to exactly T and each of them is floor(T/G) or floor(T/G)+1.
C1_FairDistribution ==
    dpc = "done" =>
        /\ SumRange(sizes, 1, groups) = total_size
        /\ \A k \in 1 .. groups :
              sizes[k] \in {total_size \div groups, total_size \div groups + 1}

\* The four bytes a 32-bit length takes in a little-endian container header.
LittleEndian32(n) ==
    <<n % 256, (n \div 256) % 256, (n \div 65536) % 256, (n \div 16777216) % 256>>

\* C2: when run() has completed normally, the header at offset 0 of the
\* output declares a data length equal to the number of bytes written after
\* the header, and a total chunk size of that length + 36.
C2_HeaderDeclaresDataLength ==
    wpc = "done" =>
        /\ file_header.data_size = LittleEndian32(data_bytes)
        /\ file_header.chunk_size = LittleEndian32(data_bytes + 36)


(***************************************************************************)
(* The input format as the specification lays it out (section 6), for the  *)
(* block the last nextFrame call began at.                                 *)
(***************************************************************************)
\* The call read a complete header.
HeaderComplete == ret # "none" /\ Len(input) - start >= 32

\* That header's bytes, and its fields.
Hdr == SubSeq(input, start + 1, start + 32)

TagValid == SubSeq(Hdr, 1, 4) = <<73, 76, 68, 65>>

DeclaredFormat == Hdr[8]

DeclaredCount == Hdr[25] * 256 + Hdr[26]

DeclaredSource == Hdr[31]

\* Record size, and the 1-based offsets of the status byte and of the colour
\* index in a record, per format code.
LayoutSize(f) == CASE f = 0 -> 8 [] f = 1 -> 6 [] f = 4 -> 10 [] f = 5 -> 8

LayoutStatus(f) == CASE f = 0 -> 7 [] f = 1 -> 5 [] f = 4 -> 7 [] f = 5 -> 5

LayoutIndex(f) == CASE f = 0 -> 8 [] f = 1 -> 6

\* The k-th record of the block (k = 1 is the first).
RecordOf(k) ==
    SubSeq(input, start + 32 + (k - 1) * LayoutSize(DeclaredFormat) + 1,
                  start + 32 + k * LayoutSize(DeclaredFormat))

BlankedBit(status) == (status \div 64) % 2 = 1

\* A signed 16-bit number from its big-endian bytes.
BigEndian16(hi, lo) ==
    IF 256 * hi + lo >= 32768 THEN 256 * hi + lo - 65536 ELSE 256 * hi + lo

ColorOf(pt) == <<pt.r, pt.g, pt.b>>

\* The call decoded a block of point records and returned its frame.
ReturnedPointFrame ==
    /\ HeaderComplete
    /\ ret = "frame"
    /\ DeclaredFormat \in {0, 1, 4, 5}

\* The block the call began at is whole in the stream: its header and its
\* DeclaredCount records in the layout of format f.
BlockComplete(f) ==
    /\ HeaderComplete
    /\ TagValid
    /\ DeclaredFormat = f
    /\ DeclaredCount > 0
    /\ Len(input) - start >= 32 + DeclaredCount * LayoutSize(f)

\* C3: after a palette-load block for source id s, an indexed block (format
\* 0 or 1) with source id s is decoded with every record that is not blanked
\* and whose colour index i is below the loaded palette's size resolved to
\* the i-th RGB triple of that palette block.
C3_LoadedPaletteResolves ==
    \A f \in {0, 1} :
        (BlockComplete(f) /\ DeclaredSource \in DOMAIN loaded) =>
            /\ ret = "frame"
            /\ \A k \in 1 .. DeclaredCount :
                  LET status == RecordOf(k)[LayoutStatus(f)]
                      index == RecordOf(k)[LayoutIndex(f)]
                      from == loaded[DeclaredSource].at + 3 * index
                  IN  (~BlankedBit(status) /\ index < loaded[DeclaredSource].n) =>
                          /\ k <= Len(current_frame.points)
                          /\ ColorOf(current_frame.points[k])
                                 = SubSeq(input, from + 1, from + 3)

\* C4: a nextFrame call that processes a palette-load header (format 2,
\* record count not zero) yields no frame, so the frames yielded are as many
\* as the point-record blocks decoded.
C4_PaletteYieldsNoFrame ==
    /\ (HeaderComplete /\ TagValid /\ DeclaredFormat = 2 /\ DeclaredCount > 0)
           => ret # "frame"
    /\ yielded = decoded

\* C5: in all four point formats, the point decoded from a record whose
\* status byte has bit 6 set is black.
C5_BlankedIsBlack ==
    ReturnedPointFrame =>
        \A k \in 1 .. DeclaredCount :
            BlankedBit(RecordOf(k)[LayoutStatus(DeclaredFormat)]) =>
                /\ k <= Len(current_frame.points)
                /\ ColorOf(current_frame.points[k]) = <<0, 0, 0>>

\* C6: on a complete header with a valid tag and a record count of zero,
\* whatever its format code, nextFrame returns no frame, raises no error and
\* reads nothing beyond the header.
C6_ZeroCountEnds ==
    (HeaderComplete /\ TagValid /\ DeclaredCount = 0) =>
        /\ ret = "null"
        /\ pos = start + 32

\* C7: a frame returned for a point-record block (format 0, 1, 4 or 5) with
\* declared count n > 0 holds exactly n points, made from records of this
\* block in stream order, none of them from an earlier block, and carries the
\* header's source id as its projector.
C7_FrameIsTheBlock ==
    ReturnedPointFrame =>
        /\ Len(current_frame.points) = DeclaredCount
        /\ current_frame.projector = DeclaredSource
        /\ \A k \in 1 .. Len(current_frame.points) :
              /\ current_frame.points[k].at >= start + 32
              /\ current_frame.points[k].at < pos
              /\ k > 1 => current_frame.points[k - 1].at < current_frame.points[k].at

\* A second frame of MaxRecords points has been returned.
C7_Witness ==
    /\ ReturnedPointFrame
    /\ yielded >= 2
    /\ decoded >= 2
    /\ Len(current_frame.points) = MaxRecords

\* C8: readHeader fails with the corrupt-format error exactly when the
\* first four bytes of the header are not "ILDA", whatever the reserved bytes.
C8_CorruptIffTagDiffers ==
    HeaderComplete => (ret = "corrupt" <=> ~TagValid)

\* C9: a block of format 1 with n records is decoded in the 6-byte layout:
\* nextFrame consumes 32 + 6n bytes, every point has z = 0, and the next
\* header is read right after the n-th record.
C9_Indexed2dLayout ==
    (/\ HeaderComplete /\ TagValid /\ Hdr[5] = 0
     /\ DeclaredFormat = 1 /\ DeclaredCount > 0
     /\ Len(input) - start >= 32 + 6 * DeclaredCount) =>
        /\ ret = "frame"
        /\ pos = start + 32 + 6 * DeclaredCount
        /\ \A k \in 1 .. Len(current_frame.points) : current_frame.points[k].z = 0

\* C10: x, y (and z of the 3D formats) of every decoded point are the
\* big-endian signed 16-bit values of the coordinate bytes of its record,
\* whatever the host byte order.
C10_CoordinatesBigEndian ==
    ReturnedPointFrame =>
        \A k \in 1 .. Len(current_frame.points) :
            LET pt == current_frame.points[k]
            IN  /\ pt.x = BigEndian16(input[pt.at + 1], input[pt.at + 2])
                /\ pt.y = BigEndian16(input[pt.at + 3], input[pt.at + 4])
                /\ DeclaredFormat \in {0, 4} =>
                       pt.z = BigEndian16(input[pt.at + 5], input[pt.at + 6])

\* C11: with total 10 and 3 groups the sizes of groups 0, 1 and 2 are 4, 3
\* and 3: the single extra unit goes to group 0.
C11_TenInThree ==
    (dpc = "done" /\ total_size = 10 /\ groups = 3) => sizes = <<4, 3, 3>>

\* C11 as amended: with total 10 and 3 groups the sizes of groups 0, 1 and 2
\* are 3, 3 and 4: the single extra unit goes to the last group.
C11_TenInThreeAmended ==
    (dpc = "done" /\ total_size = 10 /\ groups = 3) => sizes = <<3, 3, 4>>

\* The three sizes of 10 in 3 groups have been computed.
C11_Witness == dpc = "done" /\ total_size = 10 /\ groups = 3 /\ Len(sizes) = 3

(***************************************************************************)
(* The encoder's claims.  A sub-step is emitted when it is given at least  *)
(* one sample block.                                                       *)
(***************************************************************************)
Emitted(s) == s.samples_of_location > 0

\* The position a sub-step computed on axis a (1 = x, 2 = y, 3 = z).
PositionOf(s, a) == CASE a = 1 -> s.v.ix [] a = 2 -> s.v.iy [] a = 3 -> s.v.iz

\* C12: the position emitted at sub-step p of k is, on each axis,
\* last + (current - last) * p / k with truncation, for all 16-bit values of
\* last and current; sub-step k emits current; with fps 10, pps 100 and one
\* point at x = 100 from last 0, sub-step 5 emits 50 and sub-step 10 emits 100.
C12_Interpolation ==
    wpc \in {"loop", "done"} =>
        /\ \A q \in 1 .. Len(steps) :
              Emitted(steps[q]) =>
                  \A a \in 1 .. 3 :
                      /\ PositionOf(steps[q], a)
                             = steps[q].from[a]
                                 + CDiv((steps[q].to[a] - steps[q].from[a]) * steps[q].p,
                                        steps[q].k)
                      /\ steps[q].p = steps[q].k =>
                             PositionOf(steps[q], a) = steps[q].to[a]
        /\ (fps = 10 /\ pps = 100 /\ Len(steps) = 10) =>
               /\ steps[5].v.ix = 50
               /\ steps[10].v.ix = 100

\* C13: the red, green and blue samples of a point whose channel value is c
\* are c * 32767 / 255 (integer division): 0 for 0 and 32767 for 255.
C13_ColourScale ==
    wpc \in {"loop", "done"} =>
        \A q \in 1 .. Len(steps) :
            Emitted(steps[q]) =>
                /\ steps[q].v.r = (steps[q].c[1] * 32767) \div 255
                /\ steps[q].v.g = (steps[q].c[2] * 32767) \div 255
                /\ steps[q].v.b = (steps[q].c[3] * 32767) \div 255

\* An iteration of the while loop has completed; frame_in is its frame.
FrameDone == wpc \in {"loop", "done"} /\ frame_number > 0

\* Location i (0-based) of frame_in was given a sample block.
PointEmitted(i) == \E q \in 1 .. Len(steps) : steps[q].i = i /\ Emitted(steps[q])

\* The share of the point budget of the frame that has just been encoded.
ShareOfFrame == groupSizeOfNthGroup(pps, fps, (frame_number - 1) % fps)

\* C14: for every frame pulled by run() and every point in it at least one
\* sample block is emitted, for any fps, pps and rate >= 1.
C14_NoPointDropped ==
    (FrameDone /\ rate >= 1) =>
        \A i \in 0 .. Len(frame_in.points) - 1 : PointEmitted(i)

\* C14 as amended: for every frame whose iteration completes and that holds
\* no more points than its share of the point budget, with rate >= pps, at
\* least one sample block is emitted for every point.
C14_NoPointDroppedWithinBudget ==
    (FrameDone /\ Len(frame_in.points) <= ShareOfFrame /\ rate >= pps) =>
        \A i \in 0 .. Len(frame_in.points) - 1 : PointEmitted(i)

\* A frame of three points that fits its share has been encoded.
C14_Witness ==
    /\ FrameDone
    /\ Len(frame_in.points) = 3
    /\ Len(frame_in.points) <= ShareOfFrame
    /\ rate >= pps
    /\ PointEmitted(2)

\* C15: whenever the channel spec holds a character outside x, y, z, l, r,
\* g, b, run() fails with the invalid-signal error, whatever the input.
C15_InvalidSignalFails ==
    (\E j \in 1 .. Len(signals) : signals[j] \notin {"x", "y", "z", "l", "r", "g", "b"})
        => wpc # "done"

\* C16: on an output stream that cannot seek, run() does not return success.
C16_NonSeekableFails == ~seekable => wpc # "done"

\* C19: when a second of fps frames, each with at least one point, has been
\* encoded, exactly pps point slots were assigned (numbered 0..pps-1) and
\* exactly rate sample blocks were emitted; no frame writes more than
\* rate * channel_count values.
C19_SecondIsExact ==
    FrameDone =>
        /\ Len(frame_out) <= rate * Len(signals)
        /\ \A q \in 1 .. Len(steps) : steps[q].point_number \in 0 .. pps - 1
        /\ (frame_number % fps = 0 /\ sec_nonempty) =>
               /\ point_number = pps
               /\ sec_blocks = rate

(***************************************************************************)
(* The decoder across calls.  The Frame a call returns is &current_frame,  *)
(* so what the caller holds is the member current_frame itself.            *)
(***************************************************************************)
\* C17: a Frame returned by nextFrame is not modified by any later nextFrame
\* call: its points and projector id stay as the caller observed them.
C17_ReturnedFrameKept ==
    [][ret = "frame" => current_frame' = current_frame]_vars

\* The call began at a block of point records: accepted tag, a count above
\* zero and format 0, 1, 4 or 5.
PointBlockCall ==
    /\ HeaderComplete
    /\ TagValid
    /\ DeclaredCount > 0
    /\ DeclaredFormat \in {0, 1, 4, 5}

\* C17 as amended: the returned Frame is the decoder's current_frame; a
\* later call changes it only when that call begins at a block of point
\* records; a call that loads a palette, meets a zero-count header, an
\* unknown format or a header it rejects leaves it as it was.
C17_FrameChangedOnlyByPointBlock ==
    [][current_frame' # current_frame => PointBlockCall']_vars

\* A frame was returned and a later call has decoded a true-colour block
\* into the same Frame.
C17_Witness ==
    /\ decoded >= 2
    /\ ret = "frame"
    /\ PointBlockCall
    /\ DeclaredFormat \in {4, 5}
    /\ Len(current_frame.points) = 1

\* C18: once nextFrame has returned no frame for a zero-count header, every
\* later call returns no frame as well and consumes no byte of the stream.
C18_ExhaustedIsTerminal ==
    [][ret = "null" => (ret' = "null" /\ pos' = pos)]_vars

\* C20: ILDARepeater passes the wrapped input's frames through and caches a
\* copy of each; once the wrapped input has returned no frame the repeater
\* never calls it again and, for a source of n >= 0 frames, the k-th
\* replayed frame is the (k mod n)-th cached frame, never a reference
\* outside the cache, and the program does not end in the call.
C20_RepeaterReplays ==
    /\ original_recalled = 0
    /\ rpc # "crash"
    /\ rep_ret.from = "input" =>
          /\ rep_frames # <<>>
          /\ rep_ret.frame = rep_frames[Len(rep_frames)]
          /\ rep_frames = SubSeq(rep_source, 1, Len(rep_frames))
    /\ replayed > 0 =>
          /\ rep_frames = rep_source
          /\ rep_ret.from = "cache"
          /\ rep_ret.index = ((replayed - 1) % Len(rep_frames)) + 1
          /\ rep_ret.frame = rep_frames[rep_ret.index]

====
